---- MODULE Spec2Model ----
(***************************************************************************)
(* Z-score anomaly detection over a one-dimensional stream                 *)
(* (src/anomaly_detection.py): the global detector detect_anomalies and    *)
(* the sliding-window detector optimized_detect_anomalies.                 *)
(*                                                                         *)
(* Samples are float64 values.  A finite sample is an integer n (every     *)
(* integer used here is exactly representable), and the two non-finite     *)
(* kinds the detector can meet are NaN and +/-Infinity.  Statistics are    *)
(* kept as exact fractions: a mean is n/d, a standard deviation is         *)
(* sqrt(n)/d, a z-score is n/sqrt(r).  Rounding of float64 arithmetic is   *)
(* not modelled; NaN and Infinity propagation is.                          *)
(***************************************************************************)
EXTENDS Integers, Sequences, FiniteSets, TLC

(* ---------------------------- bounds ----------------------------------- *)
MaxLen == 4          \* longest enumerated stream of the single-call model
MaxWindow == 3       \* largest enumerated window_size (besides the default)
MaxTotalLen == 3     \* total samples held by the two streams of the two-call model
MaxSpikeLen == 12    \* longest stream of the isolated-spike model

(* --------------------- program constants ------------------------------- *)
DefaultWindow == 50
DefaultThreshold == 3

(* ------------------------- float64 values ------------------------------ *)
Fin(n) == [k |-> "fin", n |-> n, d |-> 1]
NaN == [k |-> "nan", n |-> 0, d |-> 1]
PInf == [k |-> "inf", n |-> 1, d |-> 1]
NInf == [k |-> "inf", n |-> -1, d |-> 1]

IsFinite(x) == x.k = "fin"

Sign(n) == IF n < 0 THEN -1 ELSE IF n > 0 THEN 1 ELSE 0

(* ------------------------- Python lists -------------------------------- *)
\* data[lo:hi] for a list: negative bounds count from the end, both are
\* clamped to 0..len, an empty range gives the empty list.
PyClamp(s, j) == IF j < 0 THEN (IF j + Len(s) < 0 THEN 0 ELSE j + Len(s))
                 ELSE (IF j > Len(s) THEN Len(s) ELSE j)

PySlice(s, lo, hi) == SubSeq(s, PyClamp(s, lo) + 1, PyClamp(s, hi))

\* data[j] raises IndexError unless -len <= j < len.
PyIndexOK(s, j) == (0 - Len(s)) <= j /\ j < Len(s)

PyItem(s, j) == IF j < 0 THEN s[j + Len(s) + 1] ELSE s[j + 1]

(* ------------------------- numpy statistics ---------------------------- *)
RECURSIVE Sum(_)
Sum(w) == IF Len(w) = 0 THEN 0 ELSE Head(w).n + Sum(Tail(w))

RECURSIVE SumSq(_)
SumSq(w) == IF Len(w) = 0 THEN 0 ELSE Head(w).n * Head(w).n + SumSq(Tail(w))

AllFinite(w) == \A j \in 1..Len(w) : IsFinite(w[j])

HasNaN(w) == \E j \in 1..Len(w) : w[j].k = "nan"

HasInf(w, sg) == \E j \in 1..Len(w) : w[j].k = "inf" /\ w[j].n = sg

\* np.mean: sum / count.  The empty list gives nan (0/0, with a warning, no
\* exception); nan propagates; +inf and -inf together give nan.
np_mean(w) ==
    IF Len(w) = 0 \/ HasNaN(w) \/ (HasInf(w, 1) /\ HasInf(w, -1)) THEN NaN
    ELSE IF HasInf(w, 1) THEN PInf
    ELSE IF HasInf(w, -1) THEN NInf
    ELSE [k |-> "fin", n |-> Sum(w), d |-> Len(w)]

\* np.std: sqrt(mean(|x - mean|^2)), the population standard deviation
\* (ddof = 0).  With S the sum, Q the sum of squares and W the count this is
\* sqrt(W*Q - S*S) / W, kept as the radicand n over d.  A non-finite sample
\* makes x - mean nan for some x (inf - inf), hence the result nan.
np_std(w) ==
    IF Len(w) = 0 \/ ~AllFinite(w) THEN NaN
    ELSE [k |-> "fin", n |-> Len(w) * SumSq(w) - Sum(w) * Sum(w), d |-> Len(w)]

\* Variant: a zero std_dev is skipped (the z-score is left undefined).
ZScore_SkipsZeroStd(point, mean, std_dev) ==
    IF point.k = "nan" \/ mean.k # "fin" \/ std_dev.k # "fin" \/ std_dev.n = 0
    THEN [k |-> "nan", n |-> 0, r |-> 1]
    ELSE IF point.k = "inf" THEN [k |-> "inf", n |-> point.n, r |-> 1]
    ELSE [k |-> "fin", n |-> point.n * mean.d - mean.n, r |-> std_dev.n]

\* z_score = (point - mean) / std_dev in float64: nan propagates, x/0 is
\* +/-inf for x # 0 and nan for x = 0, no exception is raised.  mean and
\* std_dev come from the same list, so their denominators are equal and
\* cancel: z = (point*W - S) / sqrt(W*Q - S*S), kept as n over sqrt(r).
ZScore(point, mean, std_dev) ==
    IF point.k = "nan" \/ mean.k # "fin" \/ std_dev.k # "fin"
    THEN [k |-> "nan", n |-> 0, r |-> 1]
    ELSE IF point.k = "inf" THEN [k |-> "inf", n |-> point.n, r |-> 1]
    ELSE LET num == point.n * mean.d - mean.n
         IN IF std_dev.n = 0
            THEN (IF num = 0 THEN [k |-> "nan", n |-> 0, r |-> 1]
                  ELSE [k |-> "inf", n |-> Sign(num), r |-> 1])
            ELSE [k |-> "fin", n |-> num, r |-> std_dev.n]

\* Variant: abs(z_score) >= threshold.
AbsExceeds_AtLeast(z, threshold) ==
    CASE z.k = "nan" -> FALSE
      [] z.k = "inf" -> TRUE
      [] OTHER -> IF threshold < 0 THEN TRUE
                  ELSE z.n * z.n >= threshold * threshold * z.r

\* Variant: abs(z_score) < threshold.
AbsExceeds_Below(z, threshold) ==
    CASE z.k = "nan" -> FALSE
      [] z.k = "inf" -> FALSE
      [] OTHER -> IF threshold < 0 THEN FALSE
                  ELSE z.n * z.n < threshold * threshold * z.r

\* abs(z_score) > threshold: False for nan, True for inf, else compared on
\* the squares (for a negative threshold every non-nan magnitude exceeds it).
AbsExceeds(z, threshold) ==
    CASE z.k = "nan" -> FALSE
      [] z.k = "inf" -> TRUE
      [] OTHER -> IF threshold < 0 THEN TRUE
                  ELSE z.n * z.n > threshold * threshold * z.r

(* ----------------------------- state ----------------------------------- *)
Calls == {1, 2}        \* invocations of optimized_detect_anomalies
StreamIds == {1, 2}    \* list objects owned by the callers

VARIABLES
    streams,        \* StreamIds -> the list object's contents
    data,           \* per call: the list object passed as `data`
    window_size,    \* per call: argument
    threshold,      \* per call: argument
    i,              \* per call: loop variable of range(window_size, len(data))
    anomalies,      \* per call: the result list
    pc,             \* per call: "idle", "start", "loop", "returned", "raised"
    exc,            \* per call: the exception that ended it, or "none"
    g_threshold,    \* detect_anomalies: argument (data is list object 1)
    g_mean,         \* detect_anomalies: mean, computed once
    g_std_dev,      \* detect_anomalies: std_dev, computed once
    g_i,            \* detect_anomalies: position of enumerate(data)
    g_anomalies,    \* detect_anomalies: the result list
    g_pc            \* detect_anomalies: "idle", "start", "loop", "returned", "raised"

wvars == <<data, window_size, threshold, i, anomalies, pc, exc>>
gvars == <<g_threshold, g_mean, g_std_dev, g_i, g_anomalies, g_pc>>
vars == <<streams, data, window_size, threshold, i, anomalies, pc, exc,
          g_threshold, g_mean, g_std_dev, g_i, g_anomalies, g_pc>>

(* ------------------- optimized_detect_anomalies ------------------------ *)
\* Variant: range(window_size, len(data) + 1).
InRange_Inclusive(j, s) == j <= Len(s)

\* range(window_size, len(data)) still has the value j to deliver.
InRange(j, s) == j < Len(s)

\* Variant: window = data[i-window_size+1:i+1], which holds data[i] itself.
Window_IncludesPoint(s, ws, j) == PySlice(s, j - ws + 1, j + 1)

\* window = data[i-window_size:i]
Window(s, ws, j) == PySlice(s, j - ws, j)

\* Variant: Python float division, ZeroDivisionError on a zero std_dev.
DivisionRaises_PythonFloat(std_dev) == std_dev.k = "fin" /\ std_dev.n = 0

\* Float64 division (data[i] - mean) / std_dev never raises: numpy returns
\* inf or nan with a RuntimeWarning.
DivisionRaises(std_dev) == FALSE

\* Lines 52-57 for index j: is j appended?
Classify(s, ws, t, j) ==
    LET window == Window(s, ws, j)
        mean == np_mean(window)
        std_dev == np_std(window)
    IN AbsExceeds(ZScore(PyItem(s, j), mean, std_dev), t)

\* Variant: one result list shared by every call (a module-level list or a
\* mutable default argument).
AppendTo_SharedList(lists, c, j) == [d \in DOMAIN lists |-> Append(lists[d], j)]

\* anomalies.append(j) on the list local to call c.
AppendTo(lists, c, j) == [lists EXCEPT ![c] = Append(@, j)]

\* anomalies = []; the range starts at window_size.
Call(c) ==
    /\ pc[c] = "start"
    /\ anomalies' = [anomalies EXCEPT ![c] = <<>>]
    /\ i' = [i EXCEPT ![c] = window_size[c]]
    /\ pc' = [pc EXCEPT ![c] = "loop"]
    /\ UNCHANGED <<streams, data, window_size, threshold, exc>>
    /\ UNCHANGED gvars

\* One iteration of the loop body.  data[i] raises IndexError for an i below
\* -len(data), which a negative window_size produces.
Step(c) ==
    /\ pc[c] = "loop"
    /\ InRange(i[c], streams[data[c]])
    /\ LET s == streams[data[c]]
       IN IF ~PyIndexOK(s, i[c])
          THEN /\ pc' = [pc EXCEPT ![c] = "raised"]
               /\ exc' = [exc EXCEPT ![c] = "IndexError"]
               /\ UNCHANGED <<i, anomalies>>
          ELSE IF DivisionRaises(np_std(Window(s, window_size[c], i[c])))
          THEN /\ pc' = [pc EXCEPT ![c] = "raised"]
               /\ exc' = [exc EXCEPT ![c] = "ZeroDivisionError"]
               /\ UNCHANGED <<i, anomalies>>
          ELSE /\ anomalies' = IF Classify(s, window_size[c], threshold[c], i[c])
                               THEN AppendTo(anomalies, c, i[c])
                               ELSE anomalies
               /\ i' = [i EXCEPT ![c] = @ + 1]
               /\ UNCHANGED <<pc, exc>>
    /\ UNCHANGED <<streams, data, window_size, threshold>>
    /\ UNCHANGED gvars

\* The range is exhausted: return anomalies.
Return(c) ==
    /\ pc[c] = "loop"
    /\ ~InRange(i[c], streams[data[c]])
    /\ pc' = [pc EXCEPT ![c] = "returned"]
    /\ UNCHANGED <<streams, data, window_size, threshold, i, anomalies, exc>>
    /\ UNCHANGED gvars

(* -------------------------- detect_anomalies --------------------------- *)
\* anomalies = []; mean and std_dev of the whole list, once.
GCall ==
    /\ g_pc = "start"
    /\ g_anomalies' = <<>>
    /\ g_mean' = np_mean(streams[1])
    /\ g_std_dev' = np_std(streams[1])
    /\ g_i' = 0
    /\ g_pc' = "loop"
    /\ UNCHANGED <<streams, g_threshold>>
    /\ UNCHANGED wvars

\* One iteration of `for i, point in enumerate(data)`.
GStep ==
    /\ g_pc = "loop"
    /\ g_i < Len(streams[1])
    /\ IF DivisionRaises(g_std_dev)
       THEN /\ g_pc' = "raised"
            /\ UNCHANGED <<g_i, g_anomalies>>
       ELSE /\ g_anomalies' =
                 IF AbsExceeds(ZScore(streams[1][g_i + 1], g_mean, g_std_dev), g_threshold)
                 THEN Append(g_anomalies, g_i)
                 ELSE g_anomalies
            /\ g_i' = g_i + 1
            /\ UNCHANGED g_pc
    /\ UNCHANGED <<streams, g_threshold, g_mean, g_std_dev>>
    /\ UNCHANGED wvars

GReturn ==
    /\ g_pc = "loop"
    /\ ~(g_i < Len(streams[1]))
    /\ g_pc' = "returned"
    /\ UNCHANGED <<streams, g_threshold, g_mean, g_std_dev, g_i, g_anomalies>>
    /\ UNCHANGED wvars

(* --------------------------- input sets -------------------------------- *)
SeqsUpTo(V, n) == UNION {[1..m -> V] : m \in 0..n}

Values == {Fin(0), Fin(2), Fin(5), NaN, PInf}
FiniteValues == {Fin(0), Fin(2), Fin(5)}
WindowSizes == (-2)..MaxWindow
Thresholds == {-1, 0, 1, DefaultThreshold}

\* 50 zeros followed by 100.0, and 60 zeros.
ScenarioA == [j \in 1..(DefaultWindow + 1) |-> IF j <= DefaultWindow THEN Fin(0) ELSE Fin(100)]
ScenarioB == [j \in 1..(DefaultWindow + 10) |-> Fin(0)]

\* A constant stream of n samples of value c with c + 1000 at index k.
SpikeStream(n, k, c) == [j \in 1..n |-> IF j = k + 1 THEN Fin(c + 1000) ELSE Fin(c)]

IdleCall(c) ==
    /\ pc[c] = "idle" /\ data[c] = 1 /\ window_size[c] = 1 /\ threshold[c] = 1

InitLocals ==
    /\ i = [c \in Calls |-> 0]
    /\ anomalies = [c \in Calls |-> <<>>]
    /\ exc = [c \in Calls |-> "none"]
    /\ g_mean = NaN
    /\ g_std_dev = NaN
    /\ g_i = 0
    /\ g_anomalies = <<>>

\* One list, one configuration; wpc and gpc say which detector is called.
InitOne(S, W, T, wpc, gpc) ==
    /\ \E s \in S : streams = [id \in StreamIds |-> IF id = 1 THEN s ELSE <<>>]
    /\ data = [c \in Calls |-> 1]
    /\ \E w \in W : window_size = [c \in Calls |-> IF c = 1 THEN w ELSE 1]
    /\ \E t \in T : /\ threshold = [c \in Calls |-> IF c = 1 THEN t ELSE 1]
                    /\ g_threshold = t
    /\ pc = [c \in Calls |-> IF c = 1 THEN wpc ELSE "idle"]
    /\ g_pc = gpc
    /\ InitLocals

(* ---- one call of optimized_detect_anomalies (the program's main) ------ *)
Init ==
    \/ InitOne(SeqsUpTo(Values, MaxLen), WindowSizes, Thresholds, "start", "idle")
    \/ InitOne({ScenarioA, ScenarioB}, {DefaultWindow}, {DefaultThreshold}, "start", "idle")

Next ==
    \/ Call(1)
    \/ Step(1)
    \/ Return(1)

Spec == Init /\ [][Next]_vars

(* ---------------------- one call of detect_anomalies ------------------- *)
InitGlobal ==
    InitOne(SeqsUpTo(Values, MaxLen), {1}, Thresholds, "idle", "start")

NextGlobal ==
    \/ GCall
    \/ GStep
    \/ GReturn

SpecGlobal == InitGlobal /\ [][NextGlobal]_vars

(* ------ both detectors on a constant stream with one +1000 spike ------- *)
SpikeBases == {0, 5}

SpikeStreams ==
    UNION {{SpikeStream(n, k, c) : k \in 0..(n - 1), c \in SpikeBases} : n \in 1..MaxSpikeLen}

InitSpike ==
    InitOne(SpikeStreams, 1..MaxWindow, {DefaultThreshold}, "start", "start")

NextSpike ==
    \/ Call(1)
    \/ Step(1)
    \/ Return(1)
    \/ GCall
    \/ GStep
    \/ GReturn

SpecSpike == InitSpike /\ [][NextSpike]_vars

(* ------ two calls of optimized_detect_anomalies, steps interleaved ------ *)
ConcWindows == {1, 2}
ConcThresholds == {1, DefaultThreshold}

InitConc ==
    /\ streams \in {h \in [StreamIds -> SeqsUpTo(FiniteValues, MaxTotalLen)] :
                       Len(h[1]) + Len(h[2]) <= MaxTotalLen}
    /\ data \in [Calls -> StreamIds]
    /\ window_size \in [Calls -> ConcWindows]
    /\ threshold \in [Calls -> ConcThresholds]
    /\ g_threshold = DefaultThreshold
    /\ pc = [c \in Calls |-> "start"]
    /\ g_pc = "idle"
    /\ InitLocals

NextConc ==
    \E c \in Calls :
        \/ Call(c)
        \/ Step(c)
        \/ Return(c)

SpecConc == InitConc /\ [][NextConc]_vars

\* The call run alone from index j with result list acc: its outcome.
RECURSIVE Scan(_, _, _, _, _)
Scan(s, ws, t, j, acc) ==
    IF ~InRange(j, s) THEN [out |-> "returned", res |-> acc]
    ELSE IF ~PyIndexOK(s, j) THEN [out |-> "raised", res |-> acc]
    ELSE Scan(s, ws, t, j + 1, IF Classify(s, ws, t, j) THEN Append(acc, j) ELSE acc)

RunAlone(s, ws, t) == Scan(s, ws, t, ws, <<>>)

(* ====================== properties of the detectors ==================== *)
Range(q) == {q[j] : j \in 1..Len(q)}

\* Sums over the samples at 0-based indices lo..hi of s.
RECURSIVE SumAt(_, _, _)
SumAt(s, lo, hi) == IF lo > hi THEN 0 ELSE s[lo + 1].n + SumAt(s, lo + 1, hi)

RECURSIVE SumSqAt(_, _, _)
SumSqAt(s, lo, hi) == IF lo > hi THEN 0 ELSE s[lo + 1].n * s[lo + 1].n + SumSqAt(s, lo + 1, hi)

\* W*W times the population variance of the samples at lo..hi (W = hi-lo+1).
VarAt(s, lo, hi) == (hi - lo + 1) * SumSqAt(s, lo, hi) - SumAt(s, lo, hi) * SumAt(s, lo, hi)

\* W times (s[k] - mean of the samples at lo..hi).
DevAt(s, k, lo, hi) == (hi - lo + 1) * s[k + 1].n - SumAt(s, lo, hi)

\* |s[k] - mean| > t * std_dev over the reals, for the samples at lo..hi.
Outlier(s, k, lo, hi, t) ==
    IF t >= 0 THEN DevAt(s, k, lo, hi) * DevAt(s, k, lo, hi) > t * t * VarAt(s, lo, hi)
    ELSE DevAt(s, k, lo, hi) # 0 \/ VarAt(s, lo, hi) > 0

Evaluated(s, W) == {k \in 0..(Len(s) - 1) : k >= W}

WindowedOutliers(s, W, t) == {k \in Evaluated(s, W) : Outlier(s, k, k - W, k - 1, t)}

GlobalOutliers(s, t) == {k \in 0..(Len(s) - 1) : Outlier(s, k, 0, Len(s) - 1, t)}

C1_Case ==
    /\ AllFinite(streams[1])
    /\ window_size[1] >= 1
    /\ threshold[1] > 0
    /\ \A k \in Evaluated(streams[1], window_size[1]) :
           VarAt(streams[1], k - window_size[1], k - 1) # 0

\* C1: on a stream of finite samples, with window_size >= 1, threshold > 0
\* and no evaluated window of zero standard deviation, the windowed detector
\* completes and returns exactly the indices i in window_size..len-1 with
\* |stream[i] - mean| > threshold * std_dev over stream[i-window_size .. i),
\* each once.
C1_ExactWindowedResult ==
    C1_Case =>
        /\ pc[1] # "raised"
        /\ pc[1] = "returned" =>
              /\ Range(anomalies[1]) = WindowedOutliers(streams[1], window_size[1], threshold[1])
              /\ Len(anomalies[1]) = Cardinality(Range(anomalies[1]))

C1_Witness ==
    /\ C1_Case
    /\ pc[1] = "returned"
    /\ Len(anomalies[1]) = 1
    /\ Cardinality(Evaluated(streams[1], window_size[1])) = 2

\* The samples at k-W..k-1 are finite and all equal.
ConstantWindow(s, W, k) ==
    /\ W >= 1 /\ k >= W /\ k < Len(s)
    /\ \A j \in (k - W)..(k - 1) : IsFinite(s[j + 1]) /\ s[j + 1].n = s[k - W + 1].n

DiffersFromWindow(s, W, k) == s[k + 1].k = "inf" \/ s[k + 1].n # s[k - W + 1].n

\* C2: with window_size >= 1 the windowed detector raises nothing, and an
\* index i whose window is constant (std_dev = 0) is flagged if and only if
\* stream[i] (not NaN) differs from the window's value; 50 zeros then 100.0
\* with window_size 50 and threshold 3 gives [50], 60 zeros give [].
C2_DegenerateWindow ==
    window_size[1] >= 1 =>
        /\ pc[1] # "raised"
        /\ pc[1] = "returned" =>
              /\ \A k \in Evaluated(streams[1], window_size[1]) :
                     (ConstantWindow(streams[1], window_size[1], k) /\ streams[1][k + 1].k # "nan")
                         => (k \in Range(anomalies[1])
                                <=> DiffersFromWindow(streams[1], window_size[1], k))
              /\ (streams[1] = ScenarioA /\ window_size[1] = 50 /\ threshold[1] = 3)
                     => anomalies[1] = <<50>>
              /\ (streams[1] = ScenarioB /\ window_size[1] = 50 /\ threshold[1] = 3)
                     => anomalies[1] = <<>>

C2_Witness ==
    /\ streams[1] = ScenarioA
    /\ pc[1] = "returned"
    /\ anomalies[1] = <<50>>

InvalidConfiguration(c) == window_size[c] < 1 \/ threshold[c] <= 0

\* C3: a call with window_size < 1 or threshold <= 0 never returns a result
\* (it is rejected before the scan).
C3_InvalidConfigurationRejected ==
    InvalidConfiguration(1) => pc[1] # "returned"

\* C4: on a stream with len(stream) <= window_size the windowed detector
\* evaluates no window, raises nothing and returns the empty list.
C4_ShortStreamEmpty ==
    Len(streams[1]) <= window_size[1] =>
        /\ pc[1] # "raised"
        /\ anomalies[1] = <<>>
        /\ pc[1] \in {"loop", "returned"} => i[1] = window_size[1]

C4_Witness ==
    /\ Len(streams[1]) <= window_size[1]
    /\ Len(streams[1]) > 0
    /\ pc[1] = "returned"

\* C5: every index in the windowed detector's result list, at every step of
\* the scan and on return, is at least window_size and is a valid index
\* 0 <= i < len(stream).
C5_IndicesValid ==
    \A a \in Range(anomalies[1]) :
        /\ a >= window_size[1]
        /\ 0 <= a
        /\ a < Len(streams[1])

\* C6: a call with a valid configuration on a stream with a non-finite
\* sample either does not return (it is rejected) or flags every non-finite
\* sample at an index >= window_size.
C6_NonFinitePolicy ==
    (~InvalidConfiguration(1) /\ pc[1] = "returned") =>
        \A k \in Evaluated(streams[1], window_size[1]) :
            ~IsFinite(streams[1][k + 1]) => k \in Range(anomalies[1])

ConstantStream(s) == \A j \in 1..Len(s) : s[j].n = s[1].n

\* C8: on a stream of finite samples the global detector raises nothing and
\* returns exactly the indices i in 0..len-1 with |stream[i] - mean| >
\* threshold * std_dev, mean and std_dev being those of the whole stream
\* (computed once); for an empty or constant stream that is the empty list.
C8_ExactGlobalResult ==
    /\ g_pc # "raised"
    /\ g_pc \in {"loop", "returned"} =>
          /\ g_mean = np_mean(streams[1])
          /\ g_std_dev = np_std(streams[1])
    /\ (AllFinite(streams[1]) /\ g_pc = "returned") =>
          /\ Range(g_anomalies) = GlobalOutliers(streams[1], g_threshold)
          /\ Len(g_anomalies) = Cardinality(Range(g_anomalies))
          /\ ConstantStream(streams[1]) => g_anomalies = <<>>

C8_Witness ==
    /\ AllFinite(streams[1])
    /\ g_pc = "returned"
    /\ Len(g_anomalies) = 1
    /\ Len(streams[1]) = 3

\* The indices k at which s is a constant stream with a +1000 spike.
SpikeAt(s) ==
    {k \in 0..(Len(s) - 1) : \E c \in SpikeBases : s = SpikeStream(Len(s), k, c)}

BothReturned == pc[1] = "returned" /\ g_pc = "returned"

\* C9 as stated: for every length and every spike position k >= window_size
\* both detectors flag k at threshold 3.
C9_BothFlagSpike ==
    BothReturned =>
        \A k \in SpikeAt(streams[1]) :
            k >= window_size[1] => (k \in Range(anomalies[1]) /\ k \in Range(g_anomalies))

\* C9 (amended): at threshold 3 the windowed detector flags the spike at
\* every k >= window_size for every length; the global detector flags it
\* exactly when the stream has at least 11 samples.
C9_SpikeFlaggedFromLength11 ==
    \A k \in SpikeAt(streams[1]) :
        /\ (pc[1] = "returned" /\ k >= window_size[1]) => k \in Range(anomalies[1])
        /\ g_pc = "returned" => (k \in Range(g_anomalies) <=> Len(streams[1]) >= 11)

C9_Witness ==
    /\ BothReturned
    /\ Len(streams[1]) >= 11
    /\ \E k \in SpikeAt(streams[1]) :
           /\ k >= window_size[1]
           /\ anomalies[1] = <<k>>
           /\ g_anomalies = <<k>>

SameInputs ==
    /\ streams[data[1]] = streams[data[2]]
    /\ window_size[1] = window_size[2]

\* C7: two calls on the same stream with the same window_size and thresholds
\* 0 < t1 <= t2: the call with t2 returns no more indices than the one with t1.
C7_ThresholdMonotone ==
    (/\ pc[1] = "returned" /\ pc[2] = "returned"
     /\ SameInputs
     /\ 0 < threshold[1] /\ threshold[1] <= threshold[2])
        => Len(anomalies[2]) <= Len(anomalies[1])

C7_Witness ==
    /\ pc[1] = "returned" /\ pc[2] = "returned"
    /\ SameInputs
    /\ 0 < threshold[1] /\ threshold[1] < threshold[2]
    /\ Len(anomalies[2]) < Len(anomalies[1])
    /\ window_size[1] = 2

Finished(c) == pc[c] \in {"returned", "raised"}

\* C10: with the steps of two calls interleaved in any order, each call ends
\* as it ends when run alone on its arguments (same outcome, same list), two
\* calls with the same arguments return the same list, and no step changes a
\* stream.
C10_CallsIndependent ==
    /\ [](\A c \in Calls :
             Finished(c) =>
                 /\ pc[c] = RunAlone(streams[data[c]], window_size[c], threshold[c]).out
                 /\ anomalies[c] = RunAlone(streams[data[c]], window_size[c], threshold[c]).res)
    /\ []((/\ pc[1] = "returned" /\ pc[2] = "returned"
           /\ SameInputs /\ threshold[1] = threshold[2])
             => anomalies[1] = anomalies[2])
    /\ [][streams' = streams]_vars

C10_Witness ==
    /\ pc[1] = "returned" /\ pc[2] = "returned"
    /\ data[1] = data[2]
    /\ anomalies[1] # <<>>
    /\ anomalies[2] # <<>>
    /\ anomalies[1] # anomalies[2]

====
